---- MODULE Spec2Model ----
(***************************************************************************)
(* Model of the TEMS log collector (backend/collector.py) and of the       *)
(* facade that scores the collected logs (backend/app/main.py).            *)
(*                                                                         *)
(* Text is a sequence of tokens: "|" and "\n" are the separators, " " is   *)
(* white space, every other token is a run of characters holding none of   *)
(* the three.  risk_score is kept in hundredths (30 stands for 0.3): for   *)
(* every pair of counts the model reaches, the float the code computes and *)
(* the exact value fall on the same side of 0.3 and of 1.0.                *)
(***************************************************************************)
EXTENDS Integers, Sequences, FiniteSets, TLC

VARIABLES
    pc,          \* position of the running call
    payload,     \* arguments of the running call
    requests,    \* network requests issued by the running collect_logs call
    exc,         \* exception raised at the current position, "none" if none
    res,         \* response of the log-entries fetch
    logs_raw,    \* NormalizedLog list returned by the collector / the parser
    logs,        \* list[LogEntry] handed to analyze_logs
    analysis,    \* result of analyze_logs
    response,    \* what the endpoint returns to its client
    sel_lines,   \* the lines (lists of raw fields) the SEL text was written from
    sel_output   \* the SEL text given to parse_ipmi_sel

vars == <<pc, payload, requests, exc, res, logs_raw, logs, analysis, response,
          sel_lines, sel_output>>

None == [kind |-> "None"]

(***************************************************************************)
(* Bounds of the model.                                                    *)
(***************************************************************************)
MaxLogs == 6

MaxReordered == 5

(***************************************************************************)
(* Generic helpers.                                                        *)
(***************************************************************************)
Min(a, b) == IF a < b THEN a ELSE b

\* str.upper() on the severity vocabulary of the model
Upper(s) ==
    CASE s = "warn"     -> "WARN"
      [] s = "Warning"  -> "WARNING"
      [] s = "Critical" -> "CRITICAL"
      [] s = "fatal"    -> "FATAL"
      [] s = "error"    -> "ERROR"
      [] s = "info"     -> "INFO"
      [] s = "hpe"      -> "HPE"
      [] s = "dell"     -> "DELL"
      [] s = "lenovo"   -> "LENOVO"
      [] s = "supermicro" -> "SUPERMICRO"
      [] s = "other"    -> "OTHER"
      [] s = "all"      -> "ALL"
      [] OTHER          -> s

(***************************************************************************)
(* main.py: the vendor enumeration and the pydantic models.                *)
(***************************************************************************)
Vendors == <<"hpe", "dell", "lenovo", "supermicro", "other">>

VendorSet == {Vendors[i] : i \in DOMAIN Vendors}

\* class LogEntry: the fields a LogEntry keeps
LogEntry(timestamp, severity, message, component, host, vendor) ==
    [timestamp |-> timestamp, severity |-> severity, message |-> message,
     component |-> component, host |-> host, vendor |-> vendor]

\* class Analysis: risk_score is validated, Field(ge=0, le=1)
Analysis(risk_score, summary, insights) ==
    IF risk_score >= 0 /\ risk_score <= 100
    THEN [kind |-> "Analysis", risk_score |-> risk_score, summary |-> summary,
          insights |-> insights]
    ELSE [kind |-> "ValidationError"]

(***************************************************************************)
(* main.py: analyze_logs.                                                  *)
(***************************************************************************)
CritWeight == 20
WarnWeight == 5
ScoreCap == 100
StableBelow == 30

\* IsCritical without the .upper()
IsCriticalCaseSensitive(l) == l.severity \in {"ERROR", "CRITICAL", "FATAL"}

\* l.severity.upper() in {"ERROR", "CRITICAL", "FATAL"}
IsCritical(l) == Upper(l.severity) \in {"ERROR", "CRITICAL", "FATAL"}

\* l.severity.upper() == "WARN"
IsWarn(l) == Upper(l.severity) = "WARN"

\* score_of without the min(..., 1.0)
UnclampedScore(crit, warn) == CritWeight * crit + WarnWeight * warn

\* score = min(0.2 * crit + 0.05 * warn, 1.0)
score_of(crit, warn) == Min(CritWeight * crit + WarnWeight * warn, ScoreCap)

\* summary_of with <= for <
SummaryLenient(score) ==
    IF score <= StableBelow THEN "Stable" ELSE "Investigate power/cooling"

\* summary = "Stable" if score < 0.3 else "Investigate power/cooling"
summary_of(score) ==
    IF score < StableBelow THEN "Stable" ELSE "Investigate power/cooling"

RECURSIVE CountCritical(_)
\* sum(1 for l in logs if l.severity.upper() in {...})
CountCritical(ls) ==
    IF ls = <<>> THEN 0
    ELSE (IF IsCritical(Head(ls)) THEN 1 ELSE 0) + CountCritical(Tail(ls))

RECURSIVE CountWarn(_)
\* sum(1 for l in logs if l.severity.upper() == "WARN")
CountWarn(ls) ==
    IF ls = <<>> THEN 0
    ELSE (IF IsWarn(Head(ls)) THEN 1 ELSE 0) + CountWarn(Tail(ls))

\* crit_of over logs[:3] only
CritOfFirstThree(ls) == CountCritical(SubSeq(ls, 1, Min(Len(ls), 3)))

crit_of(ls) == CountCritical(ls)

warn_of(ls) == CountWarn(ls)

analyze_logs(ls) ==
    IF ls = <<>>
    THEN Analysis(0, "No data", <<"No logs to analyze">>)
    ELSE LET crit == crit_of(ls)
             warn == warn_of(ls)
             score == score_of(crit, warn)
         IN Analysis(score, summary_of(score),
                     <<ToString(crit) \o " critical/error",
                       ToString(warn) \o " warnings">>)

(***************************************************************************)
(* The scorer on its own.  Under SpecScore analyze_logs is called on a list *)
(* that grows by one entry per call; under SpecOrder also on a reordering  *)
(* of the list of the call before.                                         *)
(***************************************************************************)
Severities == {"INFO", "WARN", "warn", "ERROR", "Critical", "fatal", "Warning"}

ScoreEntry(sev) == LogEntry("utcnow", sev, "m", "c", "h", "hpe")

SwapAt(ls, i) ==
    [k \in DOMAIN ls |-> IF k = i THEN ls[i + 1] ELSE IF k = i + 1 THEN ls[i] ELSE ls[k]]

IdleRest ==
    /\ payload = None
    /\ requests = <<>>
    /\ exc = "none"
    /\ res = None
    /\ logs_raw = <<>>
    /\ response = None
    /\ sel_lines = <<>>
    /\ sel_output = <<>>

InitScore ==
    /\ pc = "score"
    /\ logs = <<>>
    /\ analysis = analyze_logs(<<>>)
    /\ IdleRest

\* analyze_logs(logs + [entry])
AnalyzeAppended(limit) ==
    /\ Len(logs) < limit
    /\ \E sev \in Severities :
         /\ logs' = Append(logs, ScoreEntry(sev))
         /\ analysis' = analyze_logs(logs')
    /\ UNCHANGED <<pc, payload, requests, exc, res, logs_raw, response,
                   sel_lines, sel_output>>

AnalyzeLonger ==
    /\ pc = "score"
    /\ AnalyzeAppended(MaxLogs)

NextScore == AnalyzeLonger

SpecScore == InitScore /\ [][NextScore]_vars

InitOrder ==
    /\ pc = "order"
    /\ logs = <<>>
    /\ analysis = analyze_logs(<<>>)
    /\ IdleRest

AnalyzeNext ==
    /\ pc = "order"
    /\ AnalyzeAppended(MaxReordered)

\* analyze_logs on the list of the call before with two neighbours swapped
AnalyzeReordered ==
    /\ pc = "order"
    /\ \E i \in 1..(Len(logs) - 1) :
         /\ logs[i] # logs[i + 1]
         /\ logs' = SwapAt(logs, i)
         /\ analysis' = analyze_logs(logs')
    /\ UNCHANGED <<pc, payload, requests, exc, res, logs_raw, response,
                   sel_lines, sel_output>>

NextOrder == AnalyzeNext \/ AnalyzeReordered

SpecOrder == InitOrder /\ [][NextOrder]_vars

(***************************************************************************)
(* Properties of the scorer: C2, C3 and C4 under SpecScore, C5 under       *)
(* SpecOrder.                                                              *)
(***************************************************************************)
\* the spellings of the model's vocabulary that are ERROR, CRITICAL or FATAL
\* up to case, and those that are WARN up to case
CriticalSpellings == {"ERROR", "Critical", "fatal"}

WarnSpellings == {"WARN", "warn"}

NCrit == Cardinality({i \in DOMAIN logs : logs[i].severity \in CriticalSpellings})

NWarn == Cardinality({i \in DOMAIN logs : logs[i].severity \in WarnSpellings})

SeveritiesOf(ls) == [i \in DOMAIN ls |-> ls[i].severity]

\* C2: for every list of log entries analyze_logs returns an Analysis (the
\* validation of risk_score does not reject it) whose risk_score lies in
\* [0, 1]; with five or more critical entries the score is 1.0, however many
\* more are added.
C2_RiskScoreInUnitInterval ==
    /\ analysis.kind = "Analysis"
    /\ analysis.risk_score >= 0
    /\ analysis.risk_score <= 100
    /\ (NCrit >= 5 => analysis.risk_score = 100)

C2_Witness ==
    /\ pc = "score"
    /\ Len(logs) = 6
    /\ NCrit = 6
    /\ analysis.kind = "Analysis"
    /\ analysis.risk_score = 100

\* C3: for every non-empty list, risk_score = min(0.2 * critical_count +
\* 0.05 * warn_count, 1.0), the counts taken case-insensitively; INFO and
\* "Warning" count for nothing.
C3_ScoreFormula ==
    logs # <<>> =>
        /\ analysis.kind = "Analysis"
        /\ analysis.risk_score = Min(20 * NCrit + 5 * NWarn, 100)
        /\ analysis.insights = <<ToString(NCrit) \o " critical/error",
                                 ToString(NWarn) \o " warnings">>

C3_Witness ==
    /\ pc = "score"
    /\ SeveritiesOf(logs) = <<"Critical", "fatal", "Warning", "warn", "INFO">>
    /\ analysis.risk_score = 45

BoundaryInput == <<"INFO", "WARN", "ERROR", "INFO", "WARN">>

\* C4: the summary is "No data" (score 0, the one insight "No logs to
\* analyze") exactly for the empty list; for a non-empty list it is "Stable"
\* exactly when risk_score < 0.3 and "Investigate power/cooling" otherwise;
\* [INFO, WARN, ERROR, INFO, WARN] scores 0.3 and is "Investigate
\* power/cooling".
C4_SummaryLabel ==
    /\ analysis.kind = "Analysis"
    /\ (analysis.summary = "No data" <=> logs = <<>>)
    /\ (logs = <<>> =>
            /\ analysis.risk_score = 0
            /\ analysis.insights = <<"No logs to analyze">>)
    /\ (logs # <<>> =>
            /\ (analysis.summary = "Stable" <=> analysis.risk_score < 30)
            /\ (analysis.summary = "Investigate power/cooling" <=> analysis.risk_score >= 30)
            /\ (analysis.summary = "Stable" <=> 20 * NCrit + 5 * NWarn < 30))
    /\ (SeveritiesOf(logs) = BoundaryInput =>
            /\ analysis.risk_score = 30
            /\ analysis.summary = "Investigate power/cooling")

C4_Witness ==
    /\ pc = "score"
    /\ SeveritiesOf(logs) = BoundaryInput
    /\ analysis.summary = "Investigate power/cooling"

CountOf(ls, sev) == Cardinality({i \in DOMAIN ls : ls[i].severity = sev})

IsReordering(a, b) ==
    /\ Len(a) = Len(b)
    /\ a # b
    /\ \A sev \in Severities : CountOf(a, sev) = CountOf(b, sev)

\* C5: a call of analyze_logs on a reordering of the list of the call before
\* returns the same risk_score, summary and count insights.
C5_OrderIndependent ==
    [][IsReordering(logs, logs') => analysis' = analysis]_vars

C5_Witness ==
    /\ pc = "order"
    /\ SeveritiesOf(logs) = <<"WARN", "Warning", "ERROR", "fatal", "Critical">>
    /\ analysis.risk_score = 65
    /\ analysis.insights = <<"3 critical/error", "1 warnings">>

(***************************************************************************)
(* Text helpers: str.split, str.splitlines, str.strip and string building  *)
(* over token sequences.                                                   *)
(***************************************************************************)
RECURSIVE IndexOf(_, _, _)
\* first position >= i of token sep in t, 0 if there is none
IndexOf(t, sep, i) ==
    IF i > Len(t) THEN 0
    ELSE IF t[i] = sep THEN i
    ELSE IndexOf(t, sep, i + 1)

RECURSIVE Split(_, _)
\* str.split(sep): always at least one part
Split(t, sep) ==
    LET i == IndexOf(t, sep, 1)
    IN IF i = 0 THEN <<t>>
       ELSE <<SubSeq(t, 1, i - 1)>> \o Split(SubSeq(t, i + 1, Len(t)), sep)

\* str.splitlines(): no line for empty text, no empty last line after a final "\n"
splitlines(t) ==
    IF t = <<>> THEN <<>>
    ELSE LET ps == Split(t, "\n")
         IN IF ps[Len(ps)] = <<>> THEN SubSeq(ps, 1, Len(ps) - 1) ELSE ps

RECURSIVE LStrip(_)
LStrip(t) == IF t # <<>> /\ Head(t) = " " THEN LStrip(Tail(t)) ELSE t

RECURSIVE RStrip(_)
RStrip(t) ==
    IF t # <<>> /\ t[Len(t)] = " " THEN RStrip(SubSeq(t, 1, Len(t) - 1)) ELSE t

\* str.strip()
strip(t) == RStrip(LStrip(t))

RECURSIVE Str(_)
\* the string a token sequence spells
Str(t) == IF t = <<>> THEN "" ELSE Head(t) \o Str(Tail(t))

\* parts[:n]
Take(xs, n) == SubSeq(xs, 1, Min(n, Len(xs)))

(***************************************************************************)
(* collector.py: normalize_log and parse_ipmi_sel.                         *)
(***************************************************************************)
normalize_log(timestamp, host, vendor, service, severity, message) ==
    [timestamp |-> timestamp, host |-> host, vendor |-> vendor,
     service |-> service, severity |-> severity, message |-> message]

\* datetime.utcnow(): the collection time, a naive datetime
utcnow == [kind |-> "now", tz |-> "naive"]

datetime(text, tz) == [kind |-> "parsed", text |-> text, tz |-> tz]

\* datetime.strptime(s, "%m/%d/%Y %H:%M:%S") on the date vocabulary of the model
strptime(s) ==
    CASE s = "09/13/2024 12:34:56" -> [raised |-> "none", value |-> datetime("2024-09-13 12:34:56", "naive")]
      [] s = "01/02/2025 00:00:01" -> [raised |-> "none", value |-> datetime("2025-01-02 00:00:01", "naive")]
      [] OTHER -> [raised |-> "ValueError", value |-> None]

MinFields == 5

\* SkipsLine with the guard off by one
SkipsLineBelowFour(parts) == Len(parts) < MinFields - 1

\* the guard of the loop: len(parts) < 5 -> continue
SkipsLine(parts) == Len(parts) < MinFields

\* try: strptime(...) except Exception: utcnow()
sel_timestamp(date_str, time_str) ==
    LET r == strptime(date_str \o " " \o time_str)
    IN IF r.raised = "none" THEN r.value ELSE utcnow

\* one iteration of the loop: <<>> (skipped), <<event>>, or an exception
sel_line(line, host, vendor, service) ==
    LET parts == [k \in DOMAIN Split(line, "|") |-> Str(strip(Split(line, "|")[k]))]
    IN IF SkipsLine(parts) THEN [raised |-> "none", events |-> <<>>]
       ELSE IF Len(Take(parts, 5)) # 5
            THEN [raised |-> "ValueError", events |-> <<>>]  \* unpacking into 5 names
            ELSE [raised |-> "none",
                  events |-> <<normalize_log(sel_timestamp(parts[2], parts[3]),
                                             host, vendor, service, parts[4], parts[5])>>]

RECURSIVE sel_loop(_, _, _, _)
sel_loop(lines, host, vendor, service) ==
    IF lines = <<>> THEN [raised |-> "none", events |-> <<>>]
    ELSE LET h == sel_line(Head(lines), host, vendor, service)
         IN IF h.raised # "none" THEN h
            ELSE LET r == sel_loop(Tail(lines), host, vendor, service)
                 IN [raised |-> r.raised, events |-> h.events \o r.events]

parse_ipmi_sel(text, host, vendor, service) ==
    sel_loop(splitlines(text), host, vendor, service)

(***************************************************************************)
(* The SEL adapter on its own: a text is written field by field and line   *)
(* by line, then parse_ipmi_sel is called on it once.                      *)
(***************************************************************************)
MaxLines == 2

Field(raw, text) == [raw |-> raw, text |-> text]

\* what a writer may put in the 1st, 2nd, ... field of a line; text is the
\* field without the white space around it
FieldChoices ==
    << {Field(<<"1", " ">>, "1")},
       {Field(<<" ", "09/13/2024", " ">>, "09/13/2024"), Field(<<" ", "13/45/2024">>, "13/45/2024")},
       {Field(<<" ", "12:34:56", " ">>, "12:34:56"), Field(<<" ">>, "")},
       {Field(<<" ", "Critical", " ">>, "Critical"), Field(<<"WARN">>, "WARN")},
       {Field(<<" ", "PSU1", " ", "input", " ", "lost">>, "PSU1 input lost")},
       {Field(<<" ", "extra">>, "extra")} >>

RECURSIVE JoinFields(_)
JoinFields(fs) ==
    IF Len(fs) = 1 THEN fs[1].raw
    ELSE fs[1].raw \o <<"|">> \o JoinFields(Tail(fs))

RECURSIVE JoinLines(_)
\* the text of the written lines
JoinLines(ls) ==
    IF ls = <<>> THEN <<>>
    ELSE IF Len(ls) = 1 THEN JoinFields(ls[1])
    ELSE JoinFields(ls[1]) \o <<"\n">> \o JoinLines(Tail(ls))

InitSel ==
    /\ pc = "write"
    /\ sel_lines = <<>>
    /\ sel_output = <<>>
    /\ payload = [host |-> "10.0.0.5", vendor |-> "dell", service |-> "ipmi"]
    /\ requests = <<>>
    /\ exc = "none"
    /\ res = None
    /\ logs_raw = <<>>
    /\ logs = <<>>
    /\ analysis = None
    /\ response = None

WriteLine ==
    /\ pc = "write"
    /\ Len(sel_lines) < MaxLines
    /\ \E f \in FieldChoices[1] : sel_lines' = Append(sel_lines, <<f>>)
    /\ sel_output' = JoinLines(sel_lines')
    /\ UNCHANGED <<pc, payload, requests, exc, res, logs_raw, logs, analysis, response>>

WriteField ==
    /\ pc = "write"
    /\ sel_lines # <<>>
    /\ LET n == Len(sel_lines)
           k == Len(sel_lines[n]) + 1
       IN /\ k <= Len(FieldChoices)
          /\ \E f \in FieldChoices[k] :
               sel_lines' = [sel_lines EXCEPT ![n] = Append(@, f)]
    /\ sel_output' = JoinLines(sel_lines')
    /\ UNCHANGED <<pc, payload, requests, exc, res, logs_raw, logs, analysis, response>>

ParseIpmiSel ==
    /\ pc = "write"
    /\ LET r == parse_ipmi_sel(sel_output, payload.host, payload.vendor, payload.service)
       IN /\ exc' = r.raised
          /\ logs_raw' = r.events
    /\ pc' = "parsed"
    /\ UNCHANGED <<payload, requests, res, logs, analysis, response, sel_lines, sel_output>>

NextSel == WriteLine \/ WriteField \/ ParseIpmiSel

SpecSel == InitSel /\ [][NextSel]_vars

(***************************************************************************)
(* Properties of the SEL adapter, checked under SpecSel.                   *)
(***************************************************************************)
\* the written lines that have at least 5 fields, in the order written
KeptLines == SelectSeq(sel_lines, LAMBDA l : Len(l) >= 5)

ExpectedTimestamp(l) ==
    IF l[2].text = "09/13/2024" /\ l[3].text = "12:34:56"
    THEN [kind |-> "parsed", text |-> "2024-09-13 12:34:56", tz |-> "naive"]
    ELSE [kind |-> "now", tz |-> "naive"]

\* C8: parse_ipmi_sel never raises; it returns one Event per line of at
\* least 5 pipe-delimited fields, in line order, and none for a shorter line;
\* the Event's severity and message are fields 4 and 5 without the white
\* space around them; its timestamp is the parsed date and time, or the
\* current time when they do not match MM/DD/YYYY HH:MM:SS.
C8_SelOneEventPerLine ==
    pc = "parsed" =>
        /\ exc = "none"
        /\ Len(logs_raw) = Len(KeptLines)
        /\ \A i \in DOMAIN KeptLines :
             /\ logs_raw[i].severity = KeptLines[i][4].text
             /\ logs_raw[i].message = KeptLines[i][5].text
             /\ logs_raw[i].timestamp = ExpectedTimestamp(KeptLines[i])
             /\ logs_raw[i].host = payload.host
             /\ logs_raw[i].vendor = payload.vendor
             /\ logs_raw[i].service = payload.service

C8_Witness ==
    /\ pc = "parsed"
    /\ Len(sel_lines) = 2
    /\ Len(sel_lines[1]) = 4
    /\ Len(sel_lines[2]) = 6
    /\ sel_lines[2][2].text = "13/45/2024"
    /\ Len(logs_raw) = 1
    /\ logs_raw[1].timestamp = utcnow
    /\ logs_raw[1].severity = "WARN"
    /\ logs_raw[1].message = "PSU1 input lost"

(***************************************************************************)
(* collector.py: fetch_redfish_logs.  A JSON value is a record tagged with *)
(* its type; a JSON object is a function from its keys to JSON values.     *)
(***************************************************************************)
JStr(v) == [t |-> "str", v |-> v]

JInt(v) == [t |-> "int", v |-> v]

JNull == [t |-> "null", v |-> ""]

\* dict.get(key): None when the key is absent
Get(d, key) == IF key \in DOMAIN d THEN d[key] ELSE JNull

\* Python truthiness of a JSON scalar
Truthy(x) ==
    CASE x.t = "null" -> FALSE
      [] x.t = "int"  -> x.v # "0"
      [] OTHER        -> x.v # ""

\* a or b
Or(a, b) == IF Truthy(a) THEN a ELSE b

\* datetime.utcnow().isoformat(): the collection time as text
utcnow_iso == "<utcnow>"

\* ts.replace("Z", "+00:00") on the timestamp vocabulary of the model
replace_Z(s) ==
    CASE s = "2024-09-13T12:34:56Z" -> "2024-09-13T12:34:56+00:00"
      [] OTHER -> s

\* datetime.fromisoformat on the timestamp vocabulary of the model
fromisoformat(s) ==
    CASE s = "2024-09-13T12:34:56+00:00" -> [raised |-> "none", value |-> datetime("2024-09-13 12:34:56", "UTC")]
      [] s = "2024-09-13T12:34:56" -> [raised |-> "none", value |-> datetime("2024-09-13 12:34:56", "naive")]
      [] s = utcnow_iso -> [raised |-> "none", value |-> utcnow]
      [] OTHER -> [raised |-> "ValueError", value |-> None]

\* str(x) of a JSON scalar
str_scalar(x) == x.v

\* str(e) of a JSON object of at most one key
str_dict(d) ==
    IF DOMAIN d = {} THEN "{}"
    ELSE LET k == CHOOSE k \in DOMAIN d : TRUE
         IN "{'" \o k \o "': '" \o d[k].v \o "'}"

\* the timestamp argument of normalize_log: fromisoformat(ts.replace(...))
redfish_timestamp(ts) ==
    IF ts.t # "str" THEN [raised |-> "AttributeError", value |-> None]
    ELSE fromisoformat(replace_Z(ts.v))

\* one iteration of the loop over entries
redfish_entry(e, bmc_host, vendor) ==
    IF e.t # "dict" THEN [raised |-> "AttributeError", events |-> <<>>]
    ELSE LET d    == e.d
             ts   == Or(Or(Get(d, "Created"), Get(d, "DateTime")), JStr(utcnow_iso))
             msg  == Or(Or(Get(d, "Message"), Get(d, "OemRecordFormat")), JStr(str_dict(d)))
             sev  == Or(Or(Get(d, "Severity"), Get(d, "EntryType")), JStr("INFO"))
             comp == Or(Or(Get(d, "SensorType"), Get(d, "OriginOfCondition")), JStr("log"))
             t    == redfish_timestamp(ts)
         IN IF t.raised # "none" THEN [raised |-> t.raised, events |-> <<>>]
            ELSE [raised |-> "none",
                  events |-> <<normalize_log(t.value, bmc_host, vendor, str_scalar(comp),
                                             str_scalar(sev), str_scalar(msg))>>]

RECURSIVE redfish_loop(_, _, _)
redfish_loop(entries, bmc_host, vendor) ==
    IF entries = <<>> THEN [raised |-> "none", events |-> <<>>]
    ELSE LET h == redfish_entry(Head(entries), bmc_host, vendor)
         IN IF h.raised # "none" THEN h
            ELSE LET r == redfish_loop(Tail(entries), bmc_host, vendor)
                 IN [raised |-> r.raised, events |-> h.events \o r.events]

\* res.raise_for_status(): raises unless the status is a success (2xx)
raise_for_status(status) ==
    IF status >= 200 /\ status < 300 THEN "none" ELSE "HTTPStatusError"

\* everything after the fetch: raise_for_status, res.json(), the loop
redfish_after_fetch(r, bmc_host, vendor) ==
    IF raise_for_status(r.status) # "none"
    THEN [raised |-> raise_for_status(r.status), events |-> <<>>]
    ELSE CASE r.body.kind = "text" -> [raised |-> "JSONDecodeError", events |-> <<>>]
           [] r.body.kind = "list" -> [raised |-> "AttributeError", events |-> <<>>]
           [] r.body.kind = "dict" /\ r.body.members = "absent" ->
                [raised |-> "none", events |-> <<>>]
           [] r.body.kind = "dict" /\ r.body.members = "null" ->
                [raised |-> "TypeError", events |-> <<>>]
           [] OTHER -> redfish_loop(r.body.list, bmc_host, vendor)

\* probe_raises with the network error swallowed
ProbeNeverRaises(outcome) == "none"

\* await client.get(system_url): raises on a network error only
probe_raises(outcome) == IF outcome = "ok" THEN "none" ELSE "RequestError"

\* await client.get(logs_url)
fetch_raises(outcome) == IF outcome = "ok" THEN "none" ELSE "RequestError"

(***************************************************************************)
(* collector.py: collect_logs.                                             *)
(***************************************************************************)
sel_mock ==
    <<"1", " ", "|", " ", "09/13/2024", " ", "|", " ", "12:34:56", " ", "|", " ",
      "Critical", " ", "|", " ", "PSU1", " ", "input", " ", "lost">>

\* Catches for "except httpx.HTTPError"
CatchesHttpOnly(e) == e \in {"RequestError", "HTTPStatusError"}

\* except Exception: every exception the adapter raises is an Exception
Catches(e) ==
    e \in {"RequestError", "HTTPStatusError", "JSONDecodeError", "AttributeError",
           "TypeError", "ValueError"}

\* where collect_logs goes when the structured adapter raised e
after_raise(e) == IF Catches(e) THEN "fallback" ELSE "raised"

(***************************************************************************)
(* main.py: mock data and the endpoints.                                   *)
(***************************************************************************)
PyNone == "<None>"

\* host or default
OrStr(a, b) == IF a = PyNone \/ a = "" THEN b ELSE a

mock_hardware(vendor) ==
    [model |-> Upper(vendor) \o "-Server-GenX", serial |-> "SN123456", firmware |-> "2.0.1",
     power_state |-> "On", last_boot |-> utcnow]

mock_logs(vendor, host) ==
    LET source == OrStr(host, vendor \o "-bmc")
    IN << LogEntry(utcnow, "INFO", "[" \o vendor \o "] system OK", "BMC", source, vendor),
          LogEntry(utcnow, "WARN", "Fan 2 speed above threshold", "Cooling", source, vendor),
          LogEntry(utcnow, "ERROR", "PSU input unstable", "Power", source, vendor),
          LogEntry(utcnow, "INFO", "Periodic telemetry sync", "Agent", source, vendor),
          LogEntry(utcnow, "WARN", "Disk SMART pre-fail flagged", "Storage", source, vendor) >>

RECURSIVE mock_all(_, _)
\* for v in vendors: logs.extend(mock_logs(v, host=HostOf(v)))
mock_all(vendors, host) ==
    IF vendors = <<>> THEN <<>>
    ELSE mock_logs(Head(vendors), OrStr(host, Head(vendors) \o "-demo"))
         \o mock_all(Tail(vendors), host)

\* LogEntry(**l, vendor=vendor): a keyword given twice is a TypeError
log_entry_kwargs(l, vendor) ==
    IF "vendor" \in DOMAIN l
    THEN [raised |-> "TypeError", value |-> None]
    ELSE [raised |-> "none",
          value |-> LogEntry(l.timestamp, l.severity, l.message, PyNone, l.host, vendor)]

RECURSIVE log_entries(_, _)
\* [LogEntry(**l, vendor=payload.vendor) for l in logs_raw]
log_entries(raw, vendor) ==
    IF raw = <<>> THEN [raised |-> "none", value |-> <<>>]
    ELSE LET h == log_entry_kwargs(Head(raw), vendor)
         IN IF h.raised # "none" THEN h
            ELSE LET r == log_entries(Tail(raw), vendor)
                 IN IF r.raised # "none" THEN r
                    ELSE [raised |-> "none", value |-> <<h.value>> \o r.value]

\* all_logs[:10] rendered as evidence strings
evidence(ls) ==
    [i \in 1..Min(Len(ls), 10) |->
        "[" \o ls[i].vendor \o "@" \o ls[i].host \o "] " \o ls[i].severity \o ": " \o ls[i].message]

\* ConnectResponse(vendor, hardware, logs, analysis)
ConnectResponse(vendor, hardware, ls, a) ==
    [status |-> 200, vendor |-> vendor, hardware |-> hardware, logs |-> ls, analysis |-> a]

\* what the client gets when the handler lets an exception escape
ServerError(e) == [status |-> 500, detail |-> e]

(***************************************************************************)
(* The collector and the facade: one call at a time, the collector's       *)
(* network requests as steps of their own.                                 *)
(***************************************************************************)
MaxMembers == 2

Hosts == {"10.0.0.5"}

RequestVendors == VendorSet \cup {"all"}

Dict(d) == [t |-> "dict", d |-> d]

Entries ==
    { Dict(("Created" :> JStr("2024-09-13T12:34:56Z")) @@ ("Message" :> JStr("Fan failure"))
           @@ ("Severity" :> JStr("Critical")) @@ ("SensorType" :> JStr("Fan"))),
      Dict(("Created" :> JStr("")) @@ ("DateTime" :> JStr("2024-09-13T12:34:56"))
           @@ ("OemRecordFormat" :> JStr("0xA1")) @@ ("EntryType" :> JStr("SEL"))
           @@ ("OriginOfCondition" :> JInt("7"))),
      Dict(<<>>),
      Dict(("Created" :> JStr("not-a-date")) @@ ("Message" :> JStr("PSU2 lost"))
           @@ ("Severity" :> JStr("Warning"))),
      Dict(("Created" :> JInt("1726230896")) @@ ("Message" :> JStr("Tick"))),
      JStr("oops") }

RECURSIVE SeqsUpTo(_, _)
\* the sequences over S of length at most n
SeqsUpTo(S, n) ==
    IF n = 0 THEN {<<>>}
    ELSE LET shorter == SeqsUpTo(S, n - 1)
         IN shorter \cup {Append(q, x) : q \in shorter, x \in S}

Bodies ==
    { [kind |-> "text", members |-> "absent", list |-> <<>>],
      [kind |-> "list", members |-> "absent", list |-> <<>>],
      [kind |-> "dict", members |-> "absent", list |-> <<>>],
      [kind |-> "dict", members |-> "null", list |-> <<>>] }
    \cup { [kind |-> "dict", members |-> "list", list |-> m] : m \in SeqsUpTo(Entries, MaxMembers) }

Statuses == {200, 401, 500}

Init ==
    /\ pc = "idle"
    /\ payload = None
    /\ requests = <<>>
    /\ exc = "none"
    /\ res = None
    /\ logs_raw = <<>>
    /\ logs = <<>>
    /\ analysis = None
    /\ response = None
    /\ sel_lines = <<>>
    /\ sel_output = <<>>

\* POST /api/connect without TEMS_REAL_FETCH=1: the whole handler
ConnectMock ==
    /\ pc = "idle"
    /\ \E v \in RequestVendors, h \in Hosts :
         /\ payload' = [endpoint |-> "connect", vendor |-> v, bmc_host |-> h,
                        use_real |-> FALSE, prefer_redfish |-> TRUE]
         /\ logs' = IF v = "all" THEN mock_all(Vendors, PyNone) ELSE mock_logs(v, h)
         /\ analysis' = analyze_logs(logs')
         /\ response' = IF analysis'.kind = "ValidationError"
                        THEN ServerError("ValidationError")
                        ELSE ConnectResponse(v, mock_hardware(IF v = "all" THEN "all" ELSE v),
                                             logs', analysis')
    /\ pc' = "done"
    /\ UNCHANGED <<requests, exc, res, logs_raw, sel_lines, sel_output>>

\* POST /api/connect with TEMS_REAL_FETCH=1: up to the call of collect_logs
ConnectReal ==
    /\ pc = "idle"
    /\ \E v \in RequestVendors, h \in Hosts :
         payload' = [endpoint |-> "connect", vendor |-> v, bmc_host |-> h,
                     use_real |-> TRUE, prefer_redfish |-> TRUE]
    /\ pc' = "collect"
    /\ UNCHANGED <<requests, exc, res, logs_raw, logs, analysis, response,
                   sel_lines, sel_output>>

\* collect_logs called on its own, with a vendor of the enumeration
CollectCall ==
    /\ pc = "idle"
    /\ \E v \in VendorSet, h \in Hosts, p \in BOOLEAN :
         payload' = [endpoint |-> "collect_logs", vendor |-> v, bmc_host |-> h,
                     use_real |-> TRUE, prefer_redfish |-> p]
    /\ pc' = "collect"
    /\ UNCHANGED <<requests, exc, res, logs_raw, logs, analysis, response,
                   sel_lines, sel_output>>

\* if prefer_redfish: try the structured adapter
CollectStart ==
    /\ pc = "collect"
    /\ pc' = IF payload.prefer_redfish THEN "probe" ELSE "fallback"
    /\ UNCHANGED <<payload, requests, exc, res, logs_raw, logs, analysis, response,
                   sel_lines, sel_output>>

\* await client.get(system_url, ...)
Probe ==
    /\ pc = "probe"
    /\ \E outcome \in {"ok", "network error", "timeout"} :
         /\ requests' = Append(requests, [url |-> "system", outcome |-> outcome])
         /\ exc' = probe_raises(outcome)
         /\ pc' = IF exc' = "none" THEN "fetch" ELSE after_raise(exc')
    /\ UNCHANGED <<payload, res, logs_raw, logs, analysis, response, sel_lines, sel_output>>

\* res = await client.get(logs_url, ...)
Fetch ==
    /\ pc = "fetch"
    /\ \/ \E outcome \in {"network error", "timeout"} :
            /\ requests' = Append(requests, [url |-> "logs", outcome |-> outcome])
            /\ exc' = fetch_raises(outcome)
            /\ pc' = IF exc' = "none" THEN "normalize" ELSE after_raise(exc')
            /\ UNCHANGED res
       \/ \E st \in Statuses, b \in Bodies :
            /\ requests' = Append(requests, [url |-> "logs", outcome |-> "ok"])
            /\ exc' = fetch_raises("ok")
            /\ res' = [status |-> st, body |-> b]
            /\ pc' = IF exc' = "none" THEN "normalize" ELSE after_raise(exc')
    /\ UNCHANGED <<payload, logs_raw, logs, analysis, response, sel_lines, sel_output>>

\* raise_for_status, res.json() and the loop over data.get("Members", [])
Normalize ==
    /\ pc = "normalize"
    /\ LET r == redfish_after_fetch(res, payload.bmc_host, payload.vendor)
       IN /\ exc' = r.raised
          /\ logs_raw' = IF r.raised = "none" THEN r.events ELSE logs_raw
          /\ pc' = IF r.raised = "none" THEN "collected" ELSE after_raise(r.raised)
    /\ UNCHANGED <<payload, requests, res, logs, analysis, response, sel_lines, sel_output>>

\* return parse_ipmi_sel(sel_mock, host=bmc_host, vendor=vendor)
Fallback ==
    /\ pc = "fallback"
    /\ LET r == parse_ipmi_sel(sel_mock, payload.bmc_host, payload.vendor, "ipmi")
       IN /\ logs_raw' = r.events
          /\ pc' = IF r.raised = "none" THEN "collected" ELSE "raised"
    /\ UNCHANGED <<payload, requests, exc, res, logs, analysis, response,
                   sel_lines, sel_output>>

\* collect_logs returns to its caller; connect goes on to its response
Return ==
    /\ pc \in {"collected", "raised"}
    /\ IF payload.endpoint = "collect_logs"
       THEN /\ response' = IF pc = "raised" THEN [status |-> "raised", detail |-> exc]
                           ELSE [status |-> "returned", value |-> logs_raw]
            /\ UNCHANGED <<logs, analysis>>
       ELSE IF pc = "raised"
       THEN /\ response' = IF exc = "HTTPStatusError" THEN [status |-> res.status, detail |-> "BMC auth failed"]
                           ELSE IF exc = "RequestError" THEN [status |-> 504, detail |-> "BMC connection failed"]
                           ELSE ServerError(exc)
            /\ UNCHANGED <<logs, analysis>>
       ELSE LET c == log_entries(logs_raw, payload.vendor)
            IN IF c.raised # "none"
               THEN /\ response' = ServerError(c.raised)
                    /\ UNCHANGED <<logs, analysis>>
               ELSE /\ logs' = c.value
                    /\ analysis' = analyze_logs(logs')
                    /\ response' = IF analysis'.kind = "ValidationError"
                                   THEN ServerError("ValidationError")
                                   ELSE ConnectResponse(payload.vendor,
                                                        mock_hardware(payload.vendor),
                                                        logs', analysis')
    /\ pc' = "done"
    /\ UNCHANGED <<payload, requests, exc, res, logs_raw, sel_lines, sel_output>>

\* POST /api/analyze: the whole handler
AnalyzeEndpoint ==
    /\ pc = "idle"
    /\ \E v \in RequestVendors, h \in Hosts \cup {PyNone} :
         /\ payload' = [endpoint |-> "analyze", vendor |-> v, bmc_host |-> h,
                        use_real |-> FALSE, prefer_redfish |-> FALSE]
         /\ logs' = mock_all(IF v = "all" THEN Vendors ELSE <<v>>, h)
         /\ analysis' = analyze_logs(logs')
         /\ response' = IF analysis'.kind = "ValidationError"
                        THEN [status |-> 500, detail |-> "analysis_failed"]
                        ELSE [status |-> 200, vendor |-> v,
                              risk_score |-> analysis'.risk_score,
                              summary |-> analysis'.summary,
                              insights |-> analysis'.insights,
                              evidence |-> evidence(logs'),
                              count |-> Len(logs')]
    /\ pc' = "done"
    /\ UNCHANGED <<requests, exc, res, logs_raw, sel_lines, sel_output>>

Next ==
    \/ ConnectMock
    \/ ConnectReal
    \/ CollectCall
    \/ CollectStart
    \/ Probe
    \/ Fetch
    \/ Normalize
    \/ Fallback
    \/ Return
    \/ AnalyzeEndpoint

Spec == Init /\ [][Next]_vars

(***************************************************************************)
(* Properties of the collector and of the facade, checked under Spec.      *)
(***************************************************************************)
InCollector == pc # "idle" /\ payload.endpoint \in {"collect_logs", "connect"} /\ payload.use_real

\* the structured adapter was tried and did not return a list of Events
StructuredFailed ==
    \/ exc # "none"
    \/ \E i \in DOMAIN requests : requests[i].outcome # "ok"
    \/ (pc \in {"collected", "done"} /\ res # None /\ res.status \notin 200..299)
    \/ (pc \in {"collected", "done"} /\ res # None /\ res.body.kind # "dict")

\* C1: collect_logs never propagates an error of the structured adapter: it
\* returns a list of Events whatever the probe, the fetch and the payload
\* do, and whenever the structured adapter failed the list is the one Event
\* of the placeholder SEL line (severity "Critical", message "PSU1 input
\* lost", host and vendor as passed).
C1_FallbackAbsorbsErrors ==
    /\ pc # "raised"
    /\ (InCollector /\ pc = "done" /\ payload.endpoint = "collect_logs") =>
          response.status = "returned"
    /\ (InCollector /\ pc \in {"collected", "done"} /\ StructuredFailed) =>
          /\ Len(logs_raw) = 1
          /\ logs_raw[1].severity = "Critical"
          /\ logs_raw[1].message = "PSU1 input lost"
          /\ logs_raw[1].host = payload.bmc_host
          /\ logs_raw[1].vendor = payload.vendor

C1_Witness ==
    /\ pc = "done"
    /\ payload.endpoint = "collect_logs"
    /\ payload.prefer_redfish
    /\ exc = "JSONDecodeError"
    /\ response.status = "returned"
    /\ Len(response.value) = 1
    /\ response.value[1].message = "PSU1 input lost"

RequestOrder ==
    /\ Len(requests) <= 2
    /\ \A i \in DOMAIN requests : requests[i].url = (IF i = 1 THEN "system" ELSE "logs")
    /\ (Len(requests) = 2 => requests[1].outcome = "ok")
    /\ (pc # "idle" /\ ~payload.prefer_redfish => requests = <<>>)

NoRequestAfterFailure ==
    (exc # "none" \/ pc \in {"fallback", "collected", "raised", "done"}) => requests' = requests

FailureGoesToFallback ==
    (exc = "none" /\ exc' # "none") => (pc' = "fallback" /\ logs_raw' = logs_raw)

\* C9: a collect_logs call issues at most two network requests, the system
\* probe before the log-entries fetch, the fetch only after a probe that
\* completed without a network error; once the structured path has failed no
\* further request is issued and the call is at the fallback; with
\* prefer_redfish false no request is issued at all.
C9_AtMostTwoRequests ==
    [](RequestOrder) /\ [][NoRequestAfterFailure /\ FailureGoesToFallback]_vars

C9_Witness ==
    /\ pc = "done"
    /\ payload.endpoint = "collect_logs"
    /\ Len(requests) = 2
    /\ requests[1].outcome = "ok"
    /\ requests[2].outcome = "timeout"
    /\ response.status = "returned"
    /\ Len(response.value) = 1

\* C6: no Event produced by the collector or by the mock source carries the
\* vendor "all": every one carries a vendor of the enumeration.
C6_AllNeverOnEvent ==
    /\ \A i \in DOMAIN logs_raw : logs_raw[i].vendor \in VendorSet
    /\ \A i \in DOMAIN logs : logs[i].vendor \in VendorSet

WellFormedMembers ==
    /\ res # None
    /\ res.status = 200
    /\ res.body.kind = "dict"
    /\ res.body.members = "list"
    /\ \A i \in DOMAIN res.body.list :
         /\ res.body.list[i].t = "dict"
         /\ \A k \in {"Created", "DateTime"} \cap DOMAIN res.body.list[i].d :
              res.body.list[i].d[k].t = "str"

\* the timestamp text of an entry: "Created", else "DateTime", else none
TimestampText(d) ==
    IF "Created" \in DOMAIN d /\ d["Created"].v # "" THEN d["Created"].v
    ELSE IF "DateTime" \in DOMAIN d /\ d["DateTime"].v # "" THEN d["DateTime"].v
    ELSE ""

ExpectedRedfishTimestamp(d) ==
    CASE TimestampText(d) = "2024-09-13T12:34:56Z" ->
            [kind |-> "parsed", text |-> "2024-09-13 12:34:56", tz |-> "UTC"]
      [] TimestampText(d) = "2024-09-13T12:34:56" ->
            [kind |-> "parsed", text |-> "2024-09-13 12:34:56", tz |-> "naive"]
      [] OTHER -> [kind |-> "now", tz |-> "naive"]

\* C7: for a payload whose "Members" are objects with textual timestamps,
\* the structured adapter does not fail and yields one Event per entry; the
\* Event's timestamp is the parsed "Created" (else "DateTime") value, and the
\* collection time when that value is absent or unparsable.
C7_UnparsableTimestampDefaults ==
    (WellFormedMembers /\ pc \in {"fallback", "collected", "done"}) =>
        /\ exc = "none"
        /\ Len(logs_raw) = Len(res.body.list)
        /\ \A i \in DOMAIN res.body.list :
             logs_raw[i].timestamp = ExpectedRedfishTimestamp(res.body.list[i].d)

\* C10: in real-fetch mode /api/connect answers with one LogEntry per
\* collected Event (same order, severity and message) and the analysis of
\* those entries; the conversion of an Event to a LogEntry does not fail.
C10_ConnectConvertsEvents ==
    (pc = "done" /\ payload.endpoint = "connect" /\ payload.use_real) =>
        /\ response.status = 200
        /\ Len(response.logs) = Len(logs_raw)
        /\ \A i \in DOMAIN logs_raw :
             /\ response.logs[i].severity = logs_raw[i].severity
             /\ response.logs[i].message = logs_raw[i].message
        /\ response.analysis = analyze_logs(response.logs)

====
